---------------------------- MODULE Spec2Model ----------------------------
(***************************************************************************)
(* numpy/core/_dtype.py: the string forms of a data-type descriptor.       *)
(*                                                                         *)
(* A Python string is a sequence of one-character strings, so that         *)
(* formatting, joining, slicing and searching are computed, not assumed.   *)
(* A descriptor is a record of the attributes the module reads.  An        *)
(* optional value (None or x) is the sequence <<>> or <<x>>.               *)
(***************************************************************************)
EXTENDS Integers, Sequences, FiniteSets, TLC

VARIABLES
    native,         \* the platform's native byte order character, "<" or ">"
    dtype,          \* the descriptor the functions are applied to
    op,             \* the function called last ("" before any call)
    include_align,  \* its include_align / includealignedflag argument
    short,          \* its short argument
    ret,            \* [raised, val]: what the call returned or raised
    calls,          \* the calls the function made, in order, with their depth
    hist            \* earlier calls of a session, oldest first

vars == <<native, dtype, op, include_align, short, ret, calls, hist>>

(***************************************************************************)
(* Bounds of the descriptors the model is run on.                          *)
(***************************************************************************)
MaxFields == 2
MaxOffset == 2
MaxCalls == 2

(***************************************************************************)
(* Python string primitives.                                               *)
(***************************************************************************)
Digits == <<"0", "1", "2", "3", "4", "5", "6", "7", "8", "9">>

RECURSIVE PyFormatD(_)
PyFormatD(n) ==
    IF n < 0 THEN <<"-">> \o PyFormatD(0 - n)
    ELSE IF n < 10 THEN <<Digits[n + 1]>>
    ELSE PyFormatD(n \div 10) \o <<Digits[(n % 10) + 1]>>

PyReprStr(s) == <<"'">> \o s \o <<"'">>

RECURSIVE PyJoin(_, _)
PyJoin(sep, items) ==
    IF Len(items) = 0 THEN <<>>
    ELSE IF Len(items) = 1 THEN items[1]
    ELSE items[1] \o sep \o PyJoin(sep, Tail(items))

PyStrTuple(t) ==
    <<"(">> \o PyJoin(<<",", " ">>, [i \in 1..Len(t) |-> PyFormatD(t[i])])
            \o (IF Len(t) = 1 THEN <<",">> ELSE <<>>) \o <<")">>

RECURSIVE PyRFindFrom(_, _, _)
PyRFindFrom(s, c, i) ==
    IF i = 0 THEN -1
    ELSE IF s[i] = c THEN i - 1
    ELSE PyRFindFrom(s, c, i - 1)

PyRFind(s, c) == PyRFindFrom(s, c, Len(s))

PySliceFrom(s, i) ==
    LET start == IF i >= 0 THEN i
                 ELSE IF Len(s) + i > 0 THEN Len(s) + i ELSE 0
    IN  IF start >= Len(s) THEN <<>> ELSE SubSeq(s, start + 1, Len(s))

PyReprOpt(o) == IF o = <<>> THEN <<"N", "o", "n", "e">> ELSE PyReprStr(o[1])


(***************************************************************************)
(* The scalar types of numpy a descriptor's `type` attribute can be, with  *)
(* the abstract classes each one inherits from.                            *)
(***************************************************************************)
ScalarType(name, bases) ==
    [module |-> <<"n", "u", "m", "p", "y">>, name |-> name, bases |-> bases]

np_bool_ == ScalarType(<<"b", "o", "o", "l", "_">>, {"generic"})
np_object_ == ScalarType(<<"o", "b", "j", "e", "c", "t", "_">>, {"generic"})
np_string_ ==
    ScalarType(<<"s", "t", "r", "i", "n", "g", "_">>, {"character", "flexible", "generic"})
np_unicode_ ==
    ScalarType(<<"u", "n", "i", "c", "o", "d", "e", "_">>, {"character", "flexible", "generic"})
np_void == ScalarType(<<"v", "o", "i", "d">>, {"flexible", "generic"})
np_record == ScalarType(<<"r", "e", "c", "o", "r", "d">>, {"void", "flexible", "generic"})
np_datetime64 == ScalarType(<<"d", "a", "t", "e", "t", "i", "m", "e", "6", "4">>, {"generic"})
np_timedelta64 ==
    ScalarType(<<"t", "i", "m", "e", "d", "e", "l", "t", "a", "6", "4">>,
               {"signedinteger", "integer", "number", "generic"})
np_int8 == ScalarType(<<"i", "n", "t", "8">>, {"signedinteger", "integer", "number", "generic"})
np_int16 ==
    ScalarType(<<"i", "n", "t", "1", "6">>, {"signedinteger", "integer", "number", "generic"})
np_int32 ==
    ScalarType(<<"i", "n", "t", "3", "2">>, {"signedinteger", "integer", "number", "generic"})
np_uint16 ==
    ScalarType(<<"u", "i", "n", "t", "1", "6">>, {"unsignedinteger", "integer", "number", "generic"})
np_float64 ==
    ScalarType(<<"f", "l", "o", "a", "t", "6", "4">>, {"floating", "inexact", "number", "generic"})
np_complex128 ==
    ScalarType(<<"c", "o", "m", "p", "l", "e", "x", "1", "2", "8">>,
               {"complexfloating", "inexact", "number", "generic"})
\* user-registered scalar types (isbuiltin = 2)
user_rational == ScalarType(<<"r", "a", "t", "i", "o", "n", "a", "l">>, {"generic"})
user_float ==
    ScalarType(<<"u", "s", "e", "r", "f", "l", "o", "a", "t">>,
               {"floating", "inexact", "number", "generic"})
\* a scalar type no branch of the module knows
unknown_type == ScalarType(<<"u", "n", "k", "n", "o", "w", "n">>, {"generic"})

issubclass(t, base) == base \in t.bases

(***************************************************************************)
(* Descriptors.  `fields` is None (<<>>) or <<mapping>>, the mapping from  *)
(* a field name to <<field dtype, offset>> or <<field dtype, offset,       *)
(* title>>; `subdtype` is None or << <<base, shape>> >>.                   *)
(***************************************************************************)
Opposite(n) == IF n = "<" THEN ">" ELSE "<"

IsNative(n, byteorder) == byteorder \in {"=", "|", n}

\* dtype.str of a scalar: byte order character, kind, size suffix
ArrayProtocolStr(n, byteorder, kind, suffix) ==
    <<(IF byteorder = "=" THEN n ELSE byteorder)>> \o <<kind>> \o suffix

Scalar(n, type, kind, itemsize, byteorder, isbuiltin, name, suffix) ==
    [type |-> type, kind |-> kind, itemsize |-> itemsize, byteorder |-> byteorder,
     isnative |-> IsNative(n, byteorder), isbuiltin |-> isbuiltin,
     name |-> name, str |-> ArrayProtocolStr(n, byteorder, kind, suffix),
     names |-> <<>>, fields |-> <<>>, subdtype |-> <<>>, isalignedstruct |-> FALSE]

Orders == {"=", "<", ">"}
Units == {<<>>, <<"[", "n", "s", "]">>}

Bool(n) == Scalar(n, np_bool_, "b", 1, "|", 1, <<"b", "o", "o", "l">>, <<"1">>)
Object(n) == Scalar(n, np_object_, "O", 8, "|", 1, <<"o", "b", "j", "e", "c", "t">>, <<>>)
Bytes(n, size) ==
    Scalar(n, np_string_, "S", size, "|", IF size = 0 THEN 1 ELSE 0,
           <<"b", "y", "t", "e", "s">> \o (IF size = 0 THEN <<>> ELSE PyFormatD(8 * size)),
           PyFormatD(size))
Unicode(n, size, bo) ==
    Scalar(n, np_unicode_, "U", size, bo, IF size = 0 THEN 1 ELSE 0,
           <<"s", "t", "r">> \o (IF size = 0 THEN <<>> ELSE PyFormatD(8 * size)),
           PyFormatD(size \div 4))
Void(n, size) ==
    Scalar(n, np_void, "V", size, "|", IF size = 0 THEN 1 ELSE 0,
           <<"v", "o", "i", "d">> \o (IF size = 0 THEN <<>> ELSE PyFormatD(8 * size)),
           PyFormatD(size))
Datetime(n, unit, bo) ==
    Scalar(n, np_datetime64, "M", 8, bo, IF unit = <<>> THEN 1 ELSE 0,
           np_datetime64.name \o unit, <<"8">> \o unit)
Timedelta(n, unit, bo) ==
    Scalar(n, np_timedelta64, "m", 8, bo, IF unit = <<>> THEN 1 ELSE 0,
           np_timedelta64.name \o unit, <<"8">> \o unit)
Number(n, type, kind, size, bo) ==
    Scalar(n, type, kind, size, bo, 1, type.name, PyFormatD(size))

Numbers(n) ==
    {Number(n, np_int8, "i", 1, "|")}
    \cup {Number(n, np_int16, "i", 2, bo) : bo \in Orders}
    \cup {Number(n, np_uint16, "u", 2, bo) : bo \in Orders}
    \cup {Number(n, np_float64, "f", 8, bo) : bo \in Orders}
    \cup {Number(n, np_complex128, "c", 16, bo) : bo \in Orders}

\* a user-registered descriptor of a scalar type outside the number classes
Rational(n) == Scalar(n, user_rational, "V", 8, "=", 2, user_rational.name, <<"8">>)

Leaves(n) ==
    {Bool(n), Object(n), Rational(n)}
    \cup {Bytes(n, s) : s \in {0, 3}}
    \cup {Unicode(n, s, bo) : s \in {0, 8}, bo \in Orders}
    \cup {Void(n, s) : s \in {0, 2}}
    \cup {Datetime(n, u, bo) : u \in Units, bo \in Orders}
    \cup {Timedelta(n, u, bo) : u \in Units, bo \in Orders}
    \cup Numbers(n)

\* Descriptors that break the invariants the module relies on: a number
\* class whose kind character is none of u, i, f, c, and a type number no
\* branch recognises.
BadKind(n) == Scalar(n, user_float, "V", 4, "=", 2, user_float.name, <<"4">>)
Unrecognized(n) == Scalar(n, unknown_type, "x", 4, "=", 0, unknown_type.name, <<"4">>)

RECURSIVE Product(_)
Product(shape) == IF Len(shape) = 0 THEN 1 ELSE shape[1] * Product(Tail(shape))

VoidName(type, itemsize) == type.name \o PyFormatD(8 * itemsize)

Subarray(n, base, shape) ==
    [type |-> np_void, kind |-> "V", itemsize |-> base.itemsize * Product(shape),
     byteorder |-> "|", isnative |-> TRUE, isbuiltin |-> 0,
     name |-> VoidName(np_void, base.itemsize * Product(shape)),
     str |-> <<"|", "V">> \o PyFormatD(base.itemsize * Product(shape)),
     names |-> <<>>, fields |-> <<>>, subdtype |-> << <<base, shape>> >>,
     isalignedstruct |-> FALSE]

Struct(n, type, names, fields, itemsize, aligned) ==
    [type |-> type, kind |-> "V", itemsize |-> itemsize,
     byteorder |-> "|", isnative |-> TRUE, isbuiltin |-> 0,
     name |-> VoidName(type, itemsize),
     str |-> <<"|", "V">> \o PyFormatD(itemsize),
     names |-> names, fields |-> <<fields>>, subdtype |-> <<>>,
     isalignedstruct |-> aligned]

(***************************************************************************)
(* The structured descriptors the model is run on: up to MaxFields fields  *)
(* named f0, f1, ..., each of one of a few field types, at any offset up   *)
(* to MaxOffset (so gaps, overlaps and reorderings occur), with titles on  *)
(* no field, on every field or on the first field only, followed by up to  *)
(* one byte of trailing padding.                                           *)
(***************************************************************************)
FieldName(i) == <<"f">> \o PyFormatD(i - 1)
FieldTitle(i) == <<"t">> \o PyFormatD(i - 1)

Int8(n) == Number(n, np_int8, "i", 1, "|")
Int16(n) == Number(n, np_int16, "i", 2, "=")

\* the record with the single one-byte field x
Nested(n, aligned) ==
    Struct(n, np_void, << <<"x">> >>,
           [nm \in { <<"x">> } |-> <<Int8(n), 0>>], 1, aligned)

FieldTypes(n) == {Int16(n), Subarray(n, Int8(n), <<2>>), Nested(n, FALSE)}

RECURSIVE Alignment(_)
Alignment(d) ==
    IF d.subdtype # <<>> THEN Alignment(d.subdtype[1][1])
    ELSE IF d.fields # <<>> THEN 1
    ELSE IF issubclass(d.type, "number") /\ d.itemsize = 2 THEN 2
    ELSE 1

FieldChoices(n) == FieldTypes(n) \X (0..MaxOffset)

TitlePatterns == {"none", "all", "first"}

HasTitle(pattern, i) == pattern = "all" \/ (pattern = "first" /\ i = 1)

RECURSIVE MaxEnd(_, _)
MaxEnd(c, i) ==
    IF i = 0 THEN 0
    ELSE LET rest == MaxEnd(c, i - 1)
             end == c[i][2] + c[i][1].itemsize
         IN  IF end > rest THEN end ELSE rest

StructOf(n, type, c, pattern, pad, aligned) ==
    Struct(n, type, [i \in 1..Len(c) |-> FieldName(i)],
           [nm \in {FieldName(i) : i \in 1..Len(c)} |->
                LET i == CHOOSE j \in 1..Len(c) : FieldName(j) = nm
                IN  IF HasTitle(pattern, i) THEN <<c[i][1], c[i][2], FieldTitle(i)>>
                    ELSE <<c[i][1], c[i][2]>>],
           MaxEnd(c, Len(c)) + pad, aligned)

\* trailing padding of a record: none, or one byte
Paddings == {0, 1}

\* d is one of the records of at most MaxFields fields
IsStructChoice(n, d) ==
    \E k \in 0..MaxFields :
        \E c \in [1..k -> FieldChoices(n)], pattern \in TitlePatterns,
           pad \in Paddings, aligned \in BOOLEAN :
            d = StructOf(n, np_void, c, pattern, pad, aligned)

\* records of the scalar type numpy.record, of one field
Records(n) ==
    {StructOf(n, np_record, <<c>>, pattern, 0, aligned) :
        c \in FieldChoices(n), pattern \in {"none", "all"}, aligned \in BOOLEAN}

\* records one field of which is itself a record, aligned or not
Nestings(n) ==
    {StructOf(n, np_void, << <<Nested(n, inner), 0>> >>, "none", pad, outer) :
        inner \in BOOLEAN, outer \in BOOLEAN, pad \in {0, 1}}

\* three four-byte fields at offsets 0, 4, 8, without and with trailing padding
Int32(n) == Number(n, np_int32, "i", 4, "=")

Examples(n) ==
    {StructOf(n, np_void, << <<Int32(n), 0>>, <<Int32(n), 4>>, <<Int32(n), 8>> >>,
              "none", pad, FALSE) : pad \in {0, 4}}

Subarrays(n) ==
    {Subarray(n, base, shape) :
        base \in {Int16(n), Number(n, np_float64, "f", 8, Opposite(n)),
                  Nested(n, FALSE), Nested(n, TRUE)},
        shape \in {<<2>>, <<2, 3>>}}

\* align=True is accepted only when every offset and the itemsize are
\* multiples of the field alignments
IsWellAligned(d) ==
    d.isalignedstruct =>
        \A i \in 1..Len(d.names) :
            LET f == d.fields[1][d.names[i]]
            IN  f[2] % Alignment(f[1]) = 0 /\ d.itemsize % Alignment(f[1]) = 0

\* the descriptors other than the records of IsStructChoice
Others(n) ==
    Leaves(n) \cup Subarrays(n)
    \cup {d \in Records(n) \cup Nestings(n) \cup Examples(n) : IsWellAligned(d)}

IsConstructible(n, d) ==
    \/ d \in Others(n)
    \/ IsStructChoice(n, d) /\ IsWellAligned(d)

\* the two malformed scalars, alone, as the base of a subarray and as fields
Malformed(n) ==
    {BadKind(n), Unrecognized(n)}
    \cup {Subarray(n, bad, <<2>>) : bad \in {BadKind(n), Unrecognized(n)}}
    \cup {StructOf(n, np_void, << <<Int16(n), 0>>, <<bad, off>> >>, "none", pad, FALSE) :
             bad \in {BadKind(n), Unrecognized(n)}, off \in {2, 3}, pad \in {0, 1}}

IsDescriptor(n, d) == IsConstructible(n, d) \/ d \in Malformed(n)

(***************************************************************************)
(* What a call gives back: the value returned or the exception raised,     *)
(* and the calls it made (depth 1: made by the function itself; deeper:    *)
(* made by its callees), in the order they were made.                      *)
(***************************************************************************)
Return(v, cs) == [raised |-> FALSE, exc |-> "", val |-> v, calls |-> cs]
Raise(exc, msg, cs) == [raised |-> TRUE, exc |-> exc, val |-> msg, calls |-> cs]
Call(fn, args) == [fn |-> fn, depth |-> 1, args |-> args]
\* a descriptor argument, as the trace records it
Brief(d) == [name |-> d.name, fields |-> d.fields # <<>>, aligned |-> d.isalignedstruct]
Nest(cs) == [i \in 1..Len(cs) |-> [cs[i] EXCEPT !.depth = @ + 1]]
\* the result r of calling fn(args), as its caller sees it
Invoke(fn, args, r) == [r EXCEPT !.calls = <<Call(fn, args)>> \o Nest(r.calls)]

RECURSIVE _construction_repr(_, _, _)
RECURSIVE _struct_dict_str(_, _)
RECURSIVE _struct_list_str(_)
RECURSIVE _struct_str(_, _)
RECURSIVE _subarray_str(_)

_unpack_field(t) == <<t[1], t[2], IF Len(t) = 3 THEN <<t[3]>> ELSE <<>> >>

_isunsized(d) == d.itemsize = 0

\* dtype.newbyteorder('s').byteorder of a descriptor with an order
newbyteorder_s(byteorder) ==
    IF IsNative(native, byteorder) THEN Opposite(native) ELSE native

\* _byte_order_str with the native order taken to be little-endian
\* (line 153 returning '<')
_byte_order_str_little(d) ==
    LET swapped == newbyteorder_s("=")
        byteorder == d.byteorder
    IN  IF byteorder = "=" THEN "<"
        ELSE IF byteorder = "s" THEN swapped
        ELSE IF byteorder = "|" THEN ""
        ELSE byteorder

_byte_order_str(d) ==
    LET swapped == newbyteorder_s("=")
        native_ == newbyteorder_s(swapped)
        byteorder == d.byteorder
    IN  IF byteorder = "=" THEN native_
        ELSE IF byteorder = "s" THEN swapped
        ELSE IF byteorder = "|" THEN ""
        ELSE byteorder

\* '%s' of a byte order string, which is empty or one character
ByteOrderChars(b) == IF b = "" THEN <<>> ELSE <<b>>

_datetime_metadata_str(d) == PySliceFrom(d.name, PyRFind(d.name, "["))

np_issubdtype(d, base) == issubclass(d.type, base)

\* the table of lines 122-127 without its last entry
kindstrs_without_complex ==
    [u |-> <<"u", "i", "n", "t">>, i |-> <<"i", "n", "t">>,
     f |-> <<"f", "l", "o", "a", "t">>]

kindstrs ==
    [u |-> <<"u", "i", "n", "t">>, i |-> <<"i", "n", "t">>,
     f |-> <<"f", "l", "o", "a", "t">>, c |-> <<"c", "o", "m", "p", "l", "e", "x">>]

UnknownKindMessage(kind) ==
    <<"i", "n", "t", "e", "r", "n", "a", "l", " ", "d", "t", "y", "p", "e", " ",
      "r", "e", "p", "r", " ", "e", "r", "r", "o", "r", ",", " ",
      "u", "n", "k", "n", "o", "w", "n", " ", "k", "i", "n", "d", " ">>
    \o PyReprStr(<<kind>>)

UnrecognizedMessage ==
    <<"I", "n", "t", "e", "r", "n", "a", "l", " ", "e", "r", "r", "o", "r", ":", " ",
      "N", "u", "m", "P", "y", " ", "d", "t", "y", "p", "e", " ",
      "u", "n", "r", "e", "c", "o", "g", "n", "i", "z", "e", "d", " ",
      "t", "y", "p", "e", " ", "n", "u", "m", "b", "e", "r">>

\* lines 78-142 of _construction_repr: a descriptor with neither fields nor
\* a subarray
_construction_repr_scalar(d, short_) ==
    LET byteorder == ByteOrderChars(_byte_order_str(d))
        bo == <<Call("_byte_order_str", [dtype |-> Brief(d)])>>
        sized == <<Call("_isunsized", [dtype |-> Brief(d)])>>
        meta == <<Call("_datetime_metadata_str", [dtype |-> Brief(d)])>>
        q == <<"'">>
    IN  IF d.type = np_bool_ THEN
            IF short_ THEN Return(<<"'", "?", "'">>, bo)
            ELSE Return(<<"'", "b", "o", "o", "l", "'">>, bo)
        ELSE IF d.type = np_object_ THEN Return(<<"'", "O", "'">>, bo)
        ELSE IF d.type = np_string_ THEN
            IF _isunsized(d) THEN Return(<<"'", "S", "'">>, bo \o sized)
            ELSE Return(q \o <<"S">> \o PyFormatD(d.itemsize) \o q, bo \o sized)
        ELSE IF d.type = np_unicode_ THEN
            IF _isunsized(d) THEN Return(q \o byteorder \o <<"U">> \o q, bo \o sized)
            ELSE Return(q \o byteorder \o <<"U">> \o PyFormatD(d.itemsize \div 4) \o q,
                        bo \o sized)
        ELSE IF d.type = np_void THEN
            IF _isunsized(d) THEN Return(<<"'", "V", "'">>, bo \o sized)
            ELSE Return(q \o <<"V">> \o PyFormatD(d.itemsize) \o q, bo \o sized)
        ELSE IF d.type = np_datetime64 THEN
            Return(q \o byteorder \o <<"M", "8">> \o _datetime_metadata_str(d) \o q,
                   bo \o meta)
        ELSE IF d.type = np_timedelta64 THEN
            Return(q \o byteorder \o <<"m", "8">> \o _datetime_metadata_str(d) \o q,
                   bo \o meta)
        ELSE IF np_issubdtype(d, "number") THEN
            IF short_ \/ d.byteorder \notin {"=", "|"} THEN
                Return(q \o byteorder \o <<d.kind>> \o PyFormatD(d.itemsize) \o q, bo)
            ELSE IF d.kind \notin DOMAIN kindstrs THEN
                Raise("RuntimeError", UnknownKindMessage(d.kind), bo)
            ELSE Return(q \o kindstrs[d.kind] \o PyFormatD(8 * d.itemsize) \o q, bo)
        ELSE IF d.isbuiltin = 2 THEN Return(d.type.name, bo)
        ELSE Raise("RuntimeError", UnrecognizedMessage, bo)

_construction_repr(d, include_align_, short_) ==
    IF d.fields # <<>> THEN
        Invoke("_struct_str", [dtype |-> Brief(d), include_align |-> include_align_],
               _struct_str(d, include_align_))
    ELSE IF d.subdtype # <<>> THEN
        Invoke("_subarray_str", [dtype |-> Brief(d)], _subarray_str(d))
    ELSE _construction_repr_scalar(d, short_)

\* the field of d declared i-th, unpacked: <<dtype, offset, title or None>>
FieldAt(d, i) == _unpack_field(d.fields[1][d.names[i]])

UnpackCall(d, i) ==
    Call("_unpack_field",
         [dtype |-> Brief(FieldAt(d, i)[1]), offset |-> FieldAt(d, i)[2],
          title |-> FieldAt(d, i)[3]])

\* the first loop of _struct_dict_str: one _unpack_field per name
UnpackCalls(d) == [i \in 1..Len(d.names) |-> UnpackCall(d, i)]

ShortReprArgs(d) == [dtype |-> Brief(d), include_align |-> FALSE, short |-> TRUE]

\* the statements after a call: K of its value, or its exception
Bind(r, K(_)) == IF r.raised THEN r ELSE Return(K(r.val), r.calls)

\* r, after the calls cs were made
Prepend(cs, r) == [r EXCEPT !.calls = cs \o @]

\* a loop collecting the value r and then the values of the rest; the
\* first exception ends it
Collect(r, rest) ==
    IF r.raised THEN r
    ELSE IF rest.raised THEN Prepend(r.calls, rest)
    ELSE Return(<<r.val>> \o rest.val, r.calls \o rest.calls)

\* the generator of lines 188-189, consumed by join from field i on
RECURSIVE _dict_formats(_, _)
_dict_formats(d, i) ==
    IF i > Len(d.names) THEN Return(<<>>, <<>>)
    ELSE Collect(Invoke("_construction_repr", ShortReprArgs(FieldAt(d, i)[1]),
                        _construction_repr(FieldAt(d, i)[1], FALSE, TRUE)),
                 _dict_formats(d, i + 1))

\* _dict_string with the titles of the titled fields only (line 198 over
\* the titles that are not None)
_dict_string_skipping_untitled(d, includealignedflag, formats) ==
    LET n == Len(d.names)
        names == d.names
        offsets == [i \in 1..n |-> FieldAt(d, i)[2]]
        titled == SelectSeq([i \in 1..n |-> FieldAt(d, i)[3]], LAMBDA t : t # <<>>)
    IN  <<"{", "'", "n", "a", "m", "e", "s", "'", ":", "[">>
        \o PyJoin(<<",">>, [i \in 1..n |-> PyReprStr(names[i])])
        \o <<"]", ",", " ", "'", "f", "o", "r", "m", "a", "t", "s", "'", ":", "[">>
        \o PyJoin(<<",">>, formats)
        \o <<"]", ",", " ", "'", "o", "f", "f", "s", "e", "t", "s", "'", ":", "[">>
        \o PyJoin(<<",">>, [i \in 1..n |-> PyFormatD(offsets[i])])
        \o (IF Len(titled) > 0
            THEN <<"]", ",", " ", "'", "t", "i", "t", "l", "e", "s", "'", ":", "[">>
                 \o PyJoin(<<",">>, [i \in 1..Len(titled) |-> PyReprOpt(titled[i])])
            ELSE <<>>)
        \o <<"]", ",", " ", "'", "i", "t", "e", "m", "s", "i", "z", "e", "'", ":">>
        \o PyFormatD(d.itemsize)
        \o (IF includealignedflag /\ d.isalignedstruct
            THEN <<",", " ", "'", "a", "l", "i", "g", "n", "e", "d", "'", ":",
                   "T", "r", "u", "e", "}">>
            ELSE <<"}">>)

\* lines 183-207: the dictionary string, given the formats
_dict_string(d, includealignedflag, formats) ==
    LET n == Len(d.names)
        names == d.names
        offsets == [i \in 1..n |-> FieldAt(d, i)[2]]
        titles == [i \in 1..n |-> FieldAt(d, i)[3]]
    IN  <<"{", "'", "n", "a", "m", "e", "s", "'", ":", "[">>
        \o PyJoin(<<",">>, [i \in 1..n |-> PyReprStr(names[i])])
        \o <<"]", ",", " ", "'", "f", "o", "r", "m", "a", "t", "s", "'", ":", "[">>
        \o PyJoin(<<",">>, formats)
        \o <<"]", ",", " ", "'", "o", "f", "f", "s", "e", "t", "s", "'", ":", "[">>
        \o PyJoin(<<",">>, [i \in 1..n |-> PyFormatD(offsets[i])])
        \o (IF \E i \in 1..n : titles[i] # <<>>
            THEN <<"]", ",", " ", "'", "t", "i", "t", "l", "e", "s", "'", ":", "[">>
                 \o PyJoin(<<",">>, [i \in 1..n |-> PyReprOpt(titles[i])])
            ELSE <<>>)
        \o <<"]", ",", " ", "'", "i", "t", "e", "m", "s", "i", "z", "e", "'", ":">>
        \o PyFormatD(d.itemsize)
        \o (IF includealignedflag /\ d.isalignedstruct
            THEN <<",", " ", "'", "a", "l", "i", "g", "n", "e", "d", "'", ":",
                   "T", "r", "u", "e", "}">>
            ELSE <<"}">>)

_struct_dict_str(d, includealignedflag) ==
    Prepend(UnpackCalls(d),
            Bind(_dict_formats(d, 1),
                 LAMBDA formats : _dict_string(d, includealignedflag, formats)))

RECURSIVE _is_packed_loop(_, _, _)
\* _is_packed_loop without the comparison of the total with the itemsize
\* (lines 230-231 dropped)
_is_packed_loop_no_itemsize(d, i, total_offset) ==
    IF i > Len(d.names) THEN Return(TRUE, <<>>)
    ELSE IF FieldAt(d, i)[2] # total_offset THEN Return(FALSE, <<UnpackCall(d, i)>>)
    ELSE Prepend(<<UnpackCall(d, i)>>,
                 _is_packed_loop(d, i + 1, total_offset + FieldAt(d, i)[1].itemsize))

\* the loop of _is_packed from the i-th name on
_is_packed_loop(d, i, total_offset) ==
    IF i > Len(d.names) THEN
        IF total_offset # d.itemsize THEN Return(FALSE, <<>>)
        ELSE Return(TRUE, <<>>)
    ELSE IF FieldAt(d, i)[2] # total_offset THEN Return(FALSE, <<UnpackCall(d, i)>>)
    ELSE Prepend(<<UnpackCall(d, i)>>,
                 _is_packed_loop(d, i + 1, total_offset + FieldAt(d, i)[1].itemsize))

_is_packed(d) == _is_packed_loop(d, 1, 0)

\* _list_item_head with the name before the title (line 242 with its
\* arguments exchanged)
_list_item_head_name_first(name, title) ==
    IF title # <<>>
    THEN <<"(", "(">> \o PyReprStr(name) \o <<",", " ">>
         \o PyReprStr(title[1]) \o <<")", ",", " ">>
    ELSE <<"(">> \o PyReprStr(name) \o <<",", " ">>

\* lines 240-244: the opening of an item, with the title when there is one
_list_item_head(name, title) ==
    IF title # <<>>
    THEN <<"(", "(">> \o PyReprStr(title[1]) \o <<",", " ">>
         \o PyReprStr(name) \o <<")", ",", " ">>
    ELSE <<"(">> \o PyReprStr(name) \o <<",", " ">>

\* one item of _struct_list_str, lines 238-255
_list_item(d, i) ==
    IF FieldAt(d, i)[1].subdtype # <<>> THEN
        Prepend(<<UnpackCall(d, i)>>,
                Bind(Invoke("_construction_repr",
                            ShortReprArgs(FieldAt(d, i)[1].subdtype[1][1]),
                            _construction_repr(FieldAt(d, i)[1].subdtype[1][1],
                                               FALSE, TRUE)),
                     LAMBDA base :
                         _list_item_head(d.names[i], FieldAt(d, i)[3])
                         \o base \o <<",", " ">>
                         \o PyStrTuple(FieldAt(d, i)[1].subdtype[1][2]) \o <<")">>))
    ELSE
        Prepend(<<UnpackCall(d, i)>>,
                Bind(Invoke("_construction_repr", ShortReprArgs(FieldAt(d, i)[1]),
                            _construction_repr(FieldAt(d, i)[1], FALSE, TRUE)),
                     LAMBDA format :
                         _list_item_head(d.names[i], FieldAt(d, i)[3])
                         \o format \o <<")">>))

\* the loop of _struct_list_str from the i-th name on
RECURSIVE _list_items(_, _)
_list_items(d, i) ==
    IF i > Len(d.names) THEN Return(<<>>, <<>>)
    ELSE Collect(_list_item(d, i), _list_items(d, i + 1))

_struct_list_str(d) ==
    Bind(_list_items(d, 1),
         LAMBDA items : <<"[">> \o PyJoin(<<",", " ">>, items) \o <<"]">>)

\* line 265 without the alignment test: the list form whenever packed
UsesListForm_ignoring_align(d, include_align_) == _is_packed(d).val

\* the condition of line 265; _is_packed is called only when its first
\* conjunct holds
UsesListForm(d, include_align_) ==
    ~(include_align_ /\ d.isalignedstruct) /\ _is_packed(d).val

PackedCalls(d, include_align_) ==
    IF ~(include_align_ /\ d.isalignedstruct)
    THEN <<Call("_is_packed", [dtype |-> Brief(d)])>> \o Nest(_is_packed(d).calls)
    ELSE <<>>

_struct_str(d, include_align_) ==
    Prepend(PackedCalls(d, include_align_),
            Bind(IF UsesListForm(d, include_align_)
                 THEN Invoke("_struct_list_str", [dtype |-> Brief(d)], _struct_list_str(d))
                 ELSE Invoke("_struct_dict_str",
                             [dtype |-> Brief(d), include_align |-> include_align_],
                             _struct_dict_str(d, include_align_)),
                 LAMBDA sub :
                     IF d.type # np_void
                     THEN <<"(">> \o d.type.module \o <<".">> \o d.type.name
                          \o <<",", " ">> \o sub \o <<")">>
                     ELSE sub))

_subarray_str(d) ==
    Bind(Invoke("_construction_repr", ShortReprArgs(d.subdtype[1][1]),
                _construction_repr(d.subdtype[1][1], FALSE, TRUE)),
         LAMBDA base :
             <<"(">> \o base \o <<",", " ">> \o PyStrTuple(d.subdtype[1][2]) \o <<")">>)

\* _struct_repr asking _struct_str to keep the alignment (line 288 with
\* include_align=True)
_struct_repr_include_align(d) ==
    Bind(Invoke("_struct_str", [dtype |-> Brief(d), include_align |-> TRUE],
                _struct_str(d, TRUE)),
         LAMBDA s :
             <<"d", "t", "y", "p", "e", "(">> \o s
             \o (IF d.isalignedstruct
                 THEN <<",", " ", "a", "l", "i", "g", "n", "=", "T", "r", "u", "e">>
                 ELSE <<>>)
             \o <<")">>)

_struct_repr(d) ==
    Bind(Invoke("_struct_str", [dtype |-> Brief(d), include_align |-> FALSE],
                _struct_str(d, FALSE)),
         LAMBDA s :
             <<"d", "t", "y", "p", "e", "(">> \o s
             \o (IF d.isalignedstruct
                 THEN <<",", " ", "a", "l", "i", "g", "n", "=", "T", "r", "u", "e">>
                 ELSE <<>>)
             \o <<")">>)

\* __str__ with the scalar cases tried before the structured ones
str_scalars_first(d) ==
    IF issubclass(d.type, "flexible") \/ ~d.isnative THEN Return(d.str, <<>>)
    ELSE IF d.fields # <<>> THEN
        Invoke("_struct_str", [dtype |-> Brief(d), include_align |-> TRUE], _struct_str(d, TRUE))
    ELSE IF d.subdtype # <<>> THEN
        Invoke("_subarray_str", [dtype |-> Brief(d)], _subarray_str(d))
    ELSE Return(d.name, <<>>)

__str__(d) ==
    IF d.fields # <<>> THEN
        Invoke("_struct_str", [dtype |-> Brief(d), include_align |-> TRUE], _struct_str(d, TRUE))
    ELSE IF d.subdtype # <<>> THEN
        Invoke("_subarray_str", [dtype |-> Brief(d)], _subarray_str(d))
    ELSE IF issubclass(d.type, "flexible") \/ ~d.isnative THEN Return(d.str, <<>>)
    ELSE Return(d.name, <<>>)

__repr__(d) ==
    IF d.fields # <<>> THEN Invoke("_struct_repr", [dtype |-> Brief(d)], _struct_repr(d))
    ELSE Bind(Invoke("_construction_repr",
                     [dtype |-> Brief(d), include_align |-> TRUE, short |-> FALSE],
                     _construction_repr(d, TRUE, FALSE)),
              LAMBDA s : <<"d", "t", "y", "p", "e", "(">> \o s \o <<")">>)

(***************************************************************************)
(* The state machine: a descriptor is given and one of the functions of    *)
(* the module is called on it (op = "" until then).                        *)
(***************************************************************************)
NoResult == [raised |-> FALSE, exc |-> "", val |-> <<>>]

Init ==
    /\ native \in {"<", ">"}
    /\ IsDescriptor(native, dtype)
    /\ op = ""
    /\ include_align = FALSE
    /\ short = FALSE
    /\ ret = NoResult
    /\ calls = <<>>
    /\ hist = <<>>

\* the call fn(dtype, include_align=ia, short=sh) gave r
Apply(fn, ia, sh, r) ==
    /\ op' = fn
    /\ include_align' = ia
    /\ short' = sh
    /\ ret' = [raised |-> r.raised, exc |-> r.exc, val |-> r.val]
    /\ calls' = r.calls
    /\ UNCHANGED <<native, dtype>>

Call__str__ ==
    /\ op = ""
    /\ Apply("__str__", FALSE, FALSE, __str__(dtype))
    /\ UNCHANGED hist

Call__repr__ ==
    /\ op = ""
    /\ Apply("__repr__", FALSE, FALSE, __repr__(dtype))
    /\ UNCHANGED hist

Call_construction_repr ==
    /\ op = ""
    /\ \E ia \in BOOLEAN, sh \in BOOLEAN :
           Apply("_construction_repr", ia, sh, _construction_repr(dtype, ia, sh))
    /\ UNCHANGED hist

Call_struct_str ==
    /\ op = ""
    /\ dtype.fields # <<>>
    /\ \E ia \in BOOLEAN : Apply("_struct_str", ia, FALSE, _struct_str(dtype, ia))
    /\ UNCHANGED hist

Call_struct_dict_str ==
    /\ op = ""
    /\ dtype.fields # <<>>
    /\ \E flag \in BOOLEAN :
           Apply("_struct_dict_str", flag, FALSE, _struct_dict_str(dtype, flag))
    /\ UNCHANGED hist

Call_struct_list_str ==
    /\ op = ""
    /\ dtype.fields # <<>>
    /\ Apply("_struct_list_str", FALSE, FALSE, _struct_list_str(dtype))
    /\ UNCHANGED hist

Call_is_packed ==
    /\ op = ""
    /\ dtype.fields # <<>>
    /\ Apply("_is_packed", FALSE, FALSE, _is_packed(dtype))
    /\ UNCHANGED hist

Call_subarray_str ==
    /\ op = ""
    /\ dtype.subdtype # <<>>
    /\ Apply("_subarray_str", FALSE, FALSE, _subarray_str(dtype))
    /\ UNCHANGED hist

Call_struct_repr ==
    /\ op = ""
    /\ dtype.fields # <<>>
    /\ Apply("_struct_repr", FALSE, FALSE, _struct_repr(dtype))
    /\ UNCHANGED hist

Call_byte_order_str ==
    /\ op = ""
    /\ Apply("_byte_order_str", FALSE, FALSE,
             Return(ByteOrderChars(_byte_order_str(dtype)), <<>>))
    /\ UNCHANGED hist

Call_datetime_metadata_str ==
    /\ op = ""
    /\ dtype.type \in {np_datetime64, np_timedelta64}
    /\ Apply("_datetime_metadata_str", FALSE, FALSE,
             Return(_datetime_metadata_str(dtype), <<>>))
    /\ UNCHANGED hist

Next ==
    \/ Call__str__
    \/ Call__repr__
    \/ Call_construction_repr
    \/ Call_struct_str
    \/ Call_struct_dict_str
    \/ Call_struct_list_str
    \/ Call_is_packed
    \/ Call_subarray_str
    \/ Call_struct_repr
    \/ Call_byte_order_str
    \/ Call_datetime_metadata_str

Spec == Init /\ [][Next]_vars

(***************************************************************************)
(* A session: up to MaxCalls calls of _construction_repr, one after the    *)
(* other, on one numeric descriptor; hist keeps each call's arguments and  *)
(* result.                                                                 *)
(***************************************************************************)
InitSession ==
    /\ native \in {"<", ">"}
    /\ dtype \in Numbers(native)
    /\ op = ""
    /\ include_align = FALSE
    /\ short = FALSE
    /\ ret = NoResult
    /\ calls = <<>>
    /\ hist = <<>>

Logged(ia, sh, r) ==
    [include_align |-> ia, short |-> sh, raised |-> r.raised, val |-> r.val]

Session_construction_repr ==
    /\ Len(hist) < MaxCalls
    /\ \E ia \in BOOLEAN, sh \in BOOLEAN :
           /\ Apply("_construction_repr", ia, sh, _construction_repr(dtype, ia, sh))
           /\ hist' = Append(hist, Logged(ia, sh, _construction_repr(dtype, ia, sh)))

NextSession == Session_construction_repr

SpecSession == InitSession /\ [][NextSession]_vars

(***************************************************************************)
(* Properties.                                                             *)
(***************************************************************************)
IsSubstringAt(s, sub, i) ==
    i + Len(sub) - 1 <= Len(s) /\ SubSeq(s, i, i + Len(sub) - 1) = sub

Contains(s, sub) == \E i \in 1..Len(s) : IsSubstringAt(s, sub, i)

EndsWith(s, sub) == Len(sub) <= Len(s) /\ IsSubstringAt(s, sub, Len(s) - Len(sub) + 1)

StartsWith(s, sub) == IsSubstringAt(s, sub, 1)

\* the calls of fn the function called last made itself
DirectCalls(fn) == {i \in 1..Len(calls) : calls[i].fn = fn /\ calls[i].depth = 1}

Offset(d, i) == d.fields[1][d.names[i]][2]
Size(d, i) == d.fields[1][d.names[i]][1].itemsize

\* the sum of the itemsizes of the first i fields
RECURSIVE SizesBefore(_, _)
SizesBefore(d, i) == IF i = 0 THEN 0 ELSE SizesBefore(d, i - 1) + Size(d, i)

\* no gap, no overlap, no reordering, no trailing padding
PackedLayout(d) ==
    /\ \A i \in 1..Len(d.names) : Offset(d, i) = SizesBefore(d, i - 1)
    /\ SizesBefore(d, Len(d.names)) = d.itemsize

Mismatches(d) == {i \in 1..Len(d.names) : Offset(d, i) # SizesBefore(d, i - 1)}

FirstMismatch(d) == CHOOSE i \in Mismatches(d) : \A j \in Mismatches(d) : i <= j

\* C3: _is_packed returns true exactly for the layouts whose fields, in
\* declaration order, start at 0 and follow each other without gap or
\* overlap up to the itemsize; it stops at the first field whose offset
\* differs from the running total (it unpacks no later field), and it
\* visits every field otherwise.  Three four-byte fields at 0, 4, 8 are
\* packed with itemsize 12 and not with itemsize 16; a record without
\* fields is packed exactly when its itemsize is 0.
C3_IsPacked ==
    op = "_is_packed" =>
        /\ ~ret.raised
        /\ ret.val = PackedLayout(dtype)
        /\ Mismatches(dtype) # {} =>
               ~ret.val /\ Len(calls) = FirstMismatch(dtype)
        /\ Mismatches(dtype) = {} => Len(calls) = Len(dtype.names)
        /\ \A i \in 1..Len(calls) : calls[i].fn = "_unpack_field"
        /\ dtype \in Examples(native) => (ret.val <=> dtype.itemsize = 12)
        /\ Len(dtype.names) = 0 => (ret.val <=> dtype.itemsize = 0)

\* a record whose last field leaves a gap: the loop visited both fields
\* and answered false at the second
C3_Witness ==
    /\ op = "_is_packed"
    /\ Len(dtype.names) = 2
    /\ Offset(dtype, 1) = 0
    /\ Offset(dtype, 2) > Size(dtype, 1)
    /\ ret.val = FALSE
    /\ Len(calls) = 2

\* the rendering of the fields in what _struct_str returned for d: all of
\* it, or what follows "(<module>.<name>, " when d's scalar type is not void
FieldsRendering(val, d) ==
    IF d.type # np_void
    THEN SubSeq(val, Len(d.type.module) + Len(d.type.name) + 5, Len(val) - 1)
    ELSE val

\* C4: _struct_str(d, include_align) takes the dict form when
\* (include_align and d is aligned) or d is not packed, and the list form
\* in every other case: never the list form for a record that is not
\* packed, nor for an aligned record when alignment is requested.
C4_FormChoice ==
    op = "_struct_str" =>
        LET dict == (include_align /\ dtype.isalignedstruct) \/ ~PackedLayout(dtype)
        IN  /\ dict => /\ Cardinality(DirectCalls("_struct_dict_str")) = 1
                       /\ DirectCalls("_struct_list_str") = {}
                       /\ ~ret.raised => FieldsRendering(ret.val, dtype)[1] = "{"
            /\ ~dict => /\ Cardinality(DirectCalls("_struct_list_str")) = 1
                        /\ DirectCalls("_struct_dict_str") = {}
                        /\ ~ret.raised => FieldsRendering(ret.val, dtype)[1] = "["

\* a packed, aligned record rendered with alignment requested: dict form
C4_Witness ==
    /\ op = "_struct_str"
    /\ include_align
    /\ dtype.isalignedstruct
    /\ PackedLayout(dtype)
    /\ Len(dtype.names) = 2
    /\ DirectCalls("_struct_dict_str") # {}
    /\ Contains(ret.val, <<"'", "a", "l", "i", "g", "n", "e", "d", "'", ":", "T", "r", "u", "e">>)

HasTitleAt(d, i) == Len(d.fields[1][d.names[i]]) = 3
TitleAt(d, i) == d.fields[1][d.names[i]][3]
TypeAt(d, i) == d.fields[1][d.names[i]][1]

\* the canonical repr of a type in short form, and whether it exists
ShortRepr(t) == _construction_repr(t, FALSE, TRUE).val

DictKey(k) == <<"'">> \o k \o <<"'", ":">>
DictList(entries) == <<"[">> \o PyJoin(<<",">>, entries) \o <<"]">>
Comma == <<",", " ">>

\* C5: the dict form of a record of n fields is the keys names, formats,
\* offsets, titles (only if some field has a title), itemsize (always) and
\* aligned (only if requested and set), in this order; each of the lists
\* has exactly n entries, entry i describing the field declared i-th: its
\* name, the short canonical repr of its type, its offset, and its title
\* (None for a field without one).
C5_DictForm ==
    (op = "_struct_dict_str" /\ ~ret.raised) =>
        LET n == Len(dtype.names)
            I == 1..n
        IN  ret.val =
                <<"{">>
                \o DictKey(<<"n", "a", "m", "e", "s">>)
                \o DictList([i \in I |-> PyReprStr(dtype.names[i])])
                \o Comma \o DictKey(<<"f", "o", "r", "m", "a", "t", "s">>)
                \o DictList([i \in I |-> ShortRepr(TypeAt(dtype, i))])
                \o Comma \o DictKey(<<"o", "f", "f", "s", "e", "t", "s">>)
                \o DictList([i \in I |-> PyFormatD(Offset(dtype, i))])
                \o (IF \E i \in I : HasTitleAt(dtype, i)
                    THEN Comma \o DictKey(<<"t", "i", "t", "l", "e", "s">>)
                         \o DictList([i \in I |->
                                IF HasTitleAt(dtype, i)
                                THEN PyReprStr(TitleAt(dtype, i))
                                ELSE <<"N", "o", "n", "e">>])
                    ELSE <<>>)
                \o Comma \o DictKey(<<"i", "t", "e", "m", "s", "i", "z", "e">>)
                \o PyFormatD(dtype.itemsize)
                \o (IF include_align /\ dtype.isalignedstruct
                    THEN Comma \o DictKey(<<"a", "l", "i", "g", "n", "e", "d">>)
                         \o <<"T", "r", "u", "e">>
                    ELSE <<>>)
                \o <<"}">>

\* two fields, the first with a title and the second without: the titles
\* list has an entry for both
C5_Witness ==
    /\ op = "_struct_dict_str"
    /\ ~ret.raised
    /\ Len(dtype.names) = 2
    /\ HasTitleAt(dtype, 1) /\ ~HasTitleAt(dtype, 2)
    /\ Offset(dtype, 1) > Offset(dtype, 2)
    /\ Contains(ret.val, <<"'", "t", "i", "t", "l", "e", "s", "'", ":", "[",
                           "'", "t", "0", "'", ",", "N", "o", "n", "e", "]">>)

\* (name, ...  or  ((title, name), ...
ItemLabel(d, i) ==
    IF HasTitleAt(d, i)
    THEN <<"(">> \o PyReprStr(TitleAt(d, i)) \o Comma \o PyReprStr(d.names[i]) \o <<")">>
    ELSE PyReprStr(d.names[i])

IsSubarray(t) == t.subdtype # <<>>
Base(t) == t.subdtype[1][1]
Shape(t) == t.subdtype[1][2]

\* C10 as stated: every item is the pair of the name (or (title, name)) and
\* either the format or, for a subarray field, the pair (base, shape).
C10_ListForm_AsStated ==
    (op = "_struct_list_str" /\ ~ret.raised) =>
        ret.val =
            <<"[">>
            \o PyJoin(Comma, [i \in 1..Len(dtype.names) |->
                   <<"(">> \o ItemLabel(dtype, i) \o Comma
                   \o (IF IsSubarray(TypeAt(dtype, i))
                       THEN <<"(">> \o ShortRepr(Base(TypeAt(dtype, i))) \o Comma
                            \o PyStrTuple(Shape(TypeAt(dtype, i))) \o <<")">>
                       ELSE ShortRepr(TypeAt(dtype, i)))
                   \o <<")">>])
            \o <<"]">>

\* C10, amended: one item per field, in declaration order; the item is
\* (name, format), or ((title, name), format) for a field with a title;
\* for a subarray field the base (in short form) and the shape are two
\* further components of the item, (name, base, shape), not a nested pair.
C10_ListForm ==
    (op = "_struct_list_str" /\ ~ret.raised) =>
        ret.val =
            <<"[">>
            \o PyJoin(Comma, [i \in 1..Len(dtype.names) |->
                   <<"(">> \o ItemLabel(dtype, i) \o Comma
                   \o (IF IsSubarray(TypeAt(dtype, i))
                       THEN ShortRepr(Base(TypeAt(dtype, i))) \o Comma
                            \o PyStrTuple(Shape(TypeAt(dtype, i)))
                       ELSE ShortRepr(TypeAt(dtype, i)))
                   \o <<")">>])
            \o <<"]">>

\* a list form with a titled field followed by a subarray field
C10_Witness ==
    /\ op = "_struct_list_str"
    /\ ~ret.raised
    /\ Len(dtype.names) = 2
    /\ HasTitleAt(dtype, 1)
    /\ IsSubarray(TypeAt(dtype, 2))
    /\ PackedLayout(dtype)

\* C8: __str__ renders a structured descriptor with _struct_str and
\* include_align = true; otherwise a subarray as (base in short form,
\* shape); otherwise a flexible or non-native descriptor as dtype.str;
\* otherwise dtype.name.  A structured descriptor, whose scalar type is
\* flexible, never reaches the scalar branches.
C8_StrDispatch ==
    op = "__str__" =>
        IF dtype.fields # <<>> THEN
            /\ DirectCalls("_struct_str") = {1}
            /\ calls[1].args.include_align
            /\ ret.raised = _struct_str(dtype, TRUE).raised
            /\ ret.val = _struct_str(dtype, TRUE).val
        ELSE IF dtype.subdtype # <<>> THEN
            /\ DirectCalls("_subarray_str") = {1}
            /\ ~ret.raised =>
                   ret.val = <<"(">> \o ShortRepr(Base(dtype)) \o Comma
                             \o PyStrTuple(Shape(dtype)) \o <<")">>
        ELSE IF issubclass(dtype.type, "flexible") \/ ~dtype.isnative THEN
            ~ret.raised /\ ret.val = dtype.str /\ calls = <<>>
        ELSE ~ret.raised /\ ret.val = dtype.name /\ calls = <<>>

\* an aligned record: rendered by _struct_str with the alignment kept,
\* not as the "|V<n>" of its flexible scalar type
C8_Witness ==
    /\ op = "__str__"
    /\ dtype.fields # <<>>
    /\ dtype.isalignedstruct
    /\ issubclass(dtype.type, "flexible")
    /\ ret.val # dtype.str
    /\ Contains(ret.val, <<"'", "a", "l", "i", "g", "n", "e", "d", "'", ":", "T", "r", "u", "e">>)

IsScalar(d) == d.fields = <<>> /\ d.subdtype = <<>>

\* the types the branches of lines 80-113 name
NamedTypes ==
    {np_bool_, np_object_, np_string_, np_unicode_, np_void, np_datetime64,
     np_timedelta64}

\* a descriptor of a number class, not of a type named before
IsNumeric(d) == IsScalar(d) /\ d.type \notin NamedTypes /\ issubclass(d.type, "number")

\* (a) a numeric descriptor rendered in long form with a kind outside u, i, f, c
UnknownKind(d, sh) ==
    /\ IsNumeric(d)
    /\ ~sh /\ d.byteorder \in {"=", "|"}
    /\ d.kind \notin {"u", "i", "f", "c"}

\* (b) a descriptor of no recognized kind that is not a standalone builtin
NoKind(d) ==
    /\ IsScalar(d)
    /\ d.type \notin NamedTypes
    /\ ~issubclass(d.type, "number")
    /\ d.isbuiltin # 2

\* rendering d reaches (a) or (b): in d itself or, for a record or a
\* subarray, in a field type or base, which are rendered in short form
RECURSIVE ReachesError(_, _)
ReachesError(d, sh) ==
    IF d.fields # <<>> THEN \E i \in 1..Len(d.names) : ReachesError(TypeAt(d, i), TRUE)
    ELSE IF d.subdtype # <<>> THEN ReachesError(Base(d), TRUE)
    ELSE UnknownKind(d, sh) \/ NoKind(d)

\* no descriptor in d breaks the invariants of the two error branches
RECURSIVE WellFormed(_)
WellFormed(d) ==
    IF d.fields # <<>> THEN \A i \in 1..Len(d.names) : WellFormed(TypeAt(d, i))
    ELSE IF d.subdtype # <<>> THEN WellFormed(Base(d))
    ELSE /\ ~NoKind(d)
         /\ IsNumeric(d) => d.kind \in {"u", "i", "f", "c"}

\* C7: _construction_repr raises, and returns nothing, exactly when the
\* rendering reaches (a) a numeric descriptor in long form whose kind is
\* outside u, i, f, c or (b) a descriptor of no recognized kind that is no
\* standalone builtin; what it raises is a RuntimeError labeled as an
\* internal error.  On a well-formed descriptor no function of the module
\* raises, whatever the nesting.
C7_Errors ==
    /\ op = "_construction_repr" => (ret.raised <=> ReachesError(dtype, short))
    /\ op \in {"__repr__", "_struct_repr", "_struct_str", "_struct_dict_str",
               "_struct_list_str", "_subarray_str"} =>
           (ret.raised <=> ReachesError(dtype, FALSE))
    /\ ret.raised =>
           /\ ret.exc = "RuntimeError"
           /\ \/ StartsWith(ret.val, <<"i", "n", "t", "e", "r", "n", "a", "l", " ",
                                       "d", "t", "y", "p", "e", " ", "r", "e", "p", "r", " ",
                                       "e", "r", "r", "o", "r">>)
              \/ StartsWith(ret.val, <<"I", "n", "t", "e", "r", "n", "a", "l", " ",
                                       "e", "r", "r", "o", "r">>)
    /\ (op # "" /\ WellFormed(dtype)) => ~ret.raised

\* the long form of a number class with kind V: the error of the table
C7_Witness ==
    /\ op = "_construction_repr"
    /\ ~short
    /\ dtype = BadKind(native)
    /\ ret.raised
    /\ ret.exc = "RuntimeError"

\* the display character of a byte order
OrderChar(byteorder) ==
    IF byteorder = "=" THEN <<native>>
    ELSE IF byteorder = "|" THEN <<>>
    ELSE <<byteorder>>

KindName(kind) ==
    CASE kind = "u" -> <<"u", "i", "n", "t">>
      [] kind = "i" -> <<"i", "n", "t">>
      [] kind = "f" -> <<"f", "l", "o", "a", "t">>
      [] kind = "c" -> <<"c", "o", "m", "p", "l", "e", "x">>

NumericSpelling(d, sh) ==
    IF sh \/ d.byteorder \notin {"=", "|"}
    THEN <<"'">> \o OrderChar(d.byteorder) \o <<d.kind>> \o PyFormatD(d.itemsize) \o <<"'">>
    ELSE <<"'">> \o KindName(d.kind) \o PyFormatD(d.itemsize * 8) \o <<"'">>

\* C6: every call of _construction_repr on a numeric descriptor, whatever
\* the calls made before it, returns '<order><kind><itemsize>' if short is
\* requested or the byte order is neither '=' nor '|', and
\* '<kind name><8 * itemsize>' otherwise.  A native 8-byte float gives
\* 'float64' in long form and the native order's 'f8' in short form ('<f8'
\* on a little-endian platform), in either order of the two calls.
C6_NumericSpelling ==
    \A k \in 1..Len(hist) :
        /\ ~hist[k].raised
        /\ hist[k].val = NumericSpelling(dtype, hist[k].short)
        /\ dtype = Number(native, np_float64, "f", 8, "=") =>
               /\ ~hist[k].short => hist[k].val = <<"'", "f", "l", "o", "a", "t", "6", "4", "'">>
               /\ hist[k].short => hist[k].val = <<"'", native, "f", "8", "'">>

\* the short call first, then the long call, on a little-endian platform
C6_Witness ==
    /\ native = "<"
    /\ dtype = Number(native, np_float64, "f", 8, "=")
    /\ Len(hist) = 2
    /\ hist[1].short /\ hist[1].val = <<"'", "<", "f", "8", "'">>
    /\ ~hist[2].short /\ hist[2].val = <<"'", "f", "l", "o", "a", "t", "6", "4", "'">>

AlignTrue == <<",", " ", "a", "l", "i", "g", "n", "=", "T", "r", "u", "e">>
AlignedTrue == <<"'", "a", "l", "i", "g", "n", "e", "d", "'", ":", "T", "r", "u", "e">>

\* the calls of _struct_str on the descriptor itself
OwnStructStrCalls ==
    {i \in 1..Len(calls) :
        /\ calls[i].fn = "_struct_str"
        /\ calls[i].depth = (IF op = "__repr__" THEN 2 ELSE 1)}

\* C2 as stated: the repr of an aligned record has ", align=True" in the
\* dtype(...) wrapper and, when the record is not packed, 'aligned':True
\* in the dict inside; the inside is rendered with include_align = true.
C2_AlignSticky_AsStated ==
    (op = "__repr__" /\ dtype.fields # <<>> /\ dtype.isalignedstruct /\ ~ret.raised) =>
        /\ Contains(ret.val, AlignTrue)
        /\ ~PackedLayout(dtype) => Contains(ret.val, AlignedTrue)
        /\ \A i \in OwnStructStrCalls : calls[i].args.include_align

\* C2, amended: the repr of an aligned record is "dtype(" + the fields
\* rendered with include_align = false + ", align=True)"; the flag is
\* carried by the wrapper alone, and 'aligned':True appears nowhere inside,
\* packed or not.
C2_AlignSticky ==
    (op \in {"__repr__", "_struct_repr"} /\ dtype.fields # <<>>
        /\ dtype.isalignedstruct /\ ~ret.raised) =>
        /\ ret.val = <<"d", "t", "y", "p", "e", "(">> \o _struct_str(dtype, FALSE).val
                     \o AlignTrue \o <<")">>
        /\ ~Contains(ret.val, AlignedTrue)
        /\ Cardinality(OwnStructStrCalls) = 1
        /\ \A i \in OwnStructStrCalls : ~calls[i].args.include_align

\* the repr of an aligned record that is not packed
C2_Witness ==
    /\ op = "__repr__"
    /\ dtype.isalignedstruct
    /\ Len(dtype.names) = 2
    /\ ~PackedLayout(dtype)
    /\ EndsWith(ret.val, AlignTrue \o <<")">>)

\* the descriptor with its byte order resolved: '=' is the native order
Resolved(d) == [d EXCEPT !.byteorder = IF @ = "=" THEN native ELSE @]

\* same kind, itemsize, byte order, field layout and alignment flags
SameDescriptor(a, b) == Resolved(a) = Resolved(b)

\* C1: no two descriptors that differ in kind, itemsize, byte order, field
\* layout or alignment flag, nested records included, have the same repr
\* (so that the constructor can give back the descriptor from its repr).
C1_RoundTrip ==
    (op = "__repr__" /\ ~ret.raised) =>
        \A e \in Others(native) :
            __repr__(e).val = ret.val => SameDescriptor(e, dtype)

\* the calls made on a structured descriptor that take include_align
AlignCalls ==
    {i \in 1..Len(calls) :
        /\ calls[i].fn \in {"_construction_repr", "_struct_str"}
        /\ calls[i].args.dtype.fields}

HasAlignedField(d) ==
    \E i \in 1..Len(d.names) :
        TypeAt(d, i).fields # <<>> /\ TypeAt(d, i).isalignedstruct

\* C9: every call _construction_repr / _struct_str makes, directly or
\* through its callees, to render a nested record is made with the
\* include_align it was given; so with include_align = true a field that
\* is an aligned record is rendered with 'aligned':True.
C9_Propagation ==
    op \in {"_construction_repr", "_struct_str"} =>
        /\ \A i \in AlignCalls : calls[i].args.include_align = include_align
        /\ (include_align /\ dtype.fields # <<>> /\ ~dtype.isalignedstruct
                /\ HasAlignedField(dtype) /\ ~ret.raised) =>
               Contains(ret.val, AlignedTrue)

============================================================================
